---- MODULE Spec2Model ----
(***************************************************************************)
(* aristoteles: incremental export of a wview archive to daily HDF5 files. *)
(*                                                                         *)
(* Time is counted in whole UTC days (every arrow value the program        *)
(* compares is floored to a day or parsed from a YYYYMMDD text).  One      *)
(* process at a time runs entry(); between invocations the clock may move  *)
(* on and the wview archive may change.  A process can be killed between   *)
(* any two steps, and the artifact writer and the metrics writer can raise *)
(* I/O errors.                                                             *)
(***************************************************************************)
EXTENDS Integers, Sequences, FiniteSets, TLC

\* ------------------------------------------------------------- bounds
\* Calendar days are 0..MaxDay; day DAY_LIMIT stands for 2000-01-01.
MaxDay == 2

\* --------------------------------------------------- program constants
DAY_LIMIT == 1

ExpectedCount == 1440 \div 5

\* The configured weather stations, in the order of conf.sections.
stations == <<"s1", "s2">>

Station == 1..Len(stations)

Days == 0..MaxDay

\* Record counts a station can hold for one day: none or a full day.
Counts == {0, ExpectedCount}

\* An absent optional argument (argparse default=None).
None == <<>>

Some(d) == <<d>>

VARIABLES
  archive,      \* archive[d][s]: rows station s holds in day d (the wview databases)
  today,        \* current UTC day
  state_file,   \* the resume-state file: [exists, text]
  artifact,     \* artifact[d]: "absent" | "partial" | "complete" (YYYYMMDD.h5)
  lock,         \* lock[d]: the lock marker .YYYYMMDD.h5.lock exists
  pc,           \* position of the running process; "idle" / "done" when none runs
  arg_force,    \* --force
  arg_reset,    \* --reset-state: None or Some(day)
  arg_stop,     \* --stop: None or Some(day)
  first_day,    \* local first_day of entry()
  yesterday,    \* local yesterday of entry()
  start,        \* loop variable of the day loop
  count,        \* local count: files written by this run
  exported,     \* history: the days this run has called write_state for, in order
  reset_req,    \* history: the day given with --reset-state, None when none was
  status,       \* status handed to prom_and_exit
  exit_status,  \* exit status of the last terminated process (137: killed)
  outcome,      \* how the last process ended / which branch it took
  state_src,    \* history: who wrote the state file last ("none","reset","export")
  interrupted,  \* history: days whose export was interrupted under the lock
  prev,         \* history: command line of the last process, if it was a normal
                \* run that ended with status 0 and nothing changed since
  rerun,        \* history: this run repeats the previous successful normal run
  conf_archive, \* "archive" in conf, for the process that runs
  prom_new,     \* the temporary metrics file aristoteles.prom.new exists
  prom_replaced,\* history: the last process renamed its metrics file into place
  prom_io,      \* history: how the metrics I/O of the last process went ("none"
                \* when it wrote no metrics file)
  state_before, \* history: the state file as write_state found it
  visited,      \* history: the days the day loop of this run has taken, in order
  had_artifact, \* history: the artifact h5py.File is about to open stood complete
                \* and without a lock marker when this run created the lock marker
  cv_in,        \* one field of one row as fetched: [field, raw, us]
  cv_out,       \* the value stored for it
  cv_done       \* the conversion loop has passed over it

vars == <<archive, today, state_file, artifact, lock, pc, arg_force, arg_reset,
          arg_stop, first_day, yesterday, start, count, exported, reset_req, status,
          exit_status, outcome, state_src, interrupted, prev, rerun,
          conf_archive, prom_new, prom_replaced, prom_io, state_before,
          visited, had_artifact, cv_in, cv_out, cv_done>>

files == <<state_file, artifact, lock>>

args == <<arg_force, arg_reset, arg_stop, reset_req>>

locals == <<first_day, yesterday, start, count, exported>>

history == <<state_src, interrupted, prev, rerun>>

metrics == <<prom_new, prom_replaced, prom_io>>

runhist == <<conf_archive, state_before, visited, had_artifact>>

conv == <<cv_in, cv_out, cv_done>>

\* ---------------------------------------------------------- state store

\* value.format("YYYYMMDD"): the 8-digit text naming day d.
Format(d) == <<d>>

\* arrow.get(text, "YYYYMMDD"): the day a well-formed text names, else a parse error.
Parse(text) == IF Len(text) = 1 THEN Some(text[1]) ELSE None

\* Mutant: the day itself is written, not the day after it.
write_state_text_NoShift(value) == Format(value)

\* The text write_state puts in the file: tomorrow relative to value.
write_state_text(value) == Format(value + 1)

\* open(state_path, "w"): the file exists and is empty until the text is flushed.
write_state_open == [exists |-> TRUE, text |-> <<>>]

\* Mutant: the state file gets the day just exported.
write_state_flush_Same(value) == [exists |-> TRUE, text |-> Format(value)]

\* f.write(...) and the close at the end of the with block.
write_state_flush(value) == [exists |-> TRUE, text |-> write_state_text(value)]

\* Mutant: a missing or unparseable state reads as the earliest day allowed.
read_state_Floor(f) ==
  IF f.exists /\ Parse(f.text) # None THEN Parse(f.text) ELSE Some(DAY_LIMIT)

\* read_state: None on a missing file (OSError) or an unparseable text.
read_state(f) == IF f.exists THEN Parse(f.text) ELSE None

\* ------------------------------------------------------------- archive

\* Station s has at least one row in the archive.
HasRows(s) == \E d \in Days : archive[d][s] > 0

\* start_day[station]: the day of the earliest record of station s.
start_day(s) == CHOOSE d \in Days : archive[d][s] > 0 /\ \A e \in 0..(d-1) : archive[e][s] = 0

RECURSIVE EarliestFrom(_, _)
\* The loop of the reset branch: first_day starts at today and is lowered to
\* every earlier start_day.
EarliestFrom(i, acc) ==
  IF i > Len(stations) THEN acc
  ELSE EarliestFrom(i + 1, IF acc > start_day(i) THEN start_day(i) ELSE acc)

reset_first_day == EarliestFrom(1, today)

\* The requested reset day, advanced to the first day available.
reset_target(requested) ==
  IF requested < reset_first_day THEN reset_first_day ELSE requested

\* SELECT COUNT() ... for one station and one day.
day_count(s, d) == archive[d][s]

\* have_data after the station loop of one day.
have_data(d) == \E s \in Station : day_count(s, d) > 0

RECURSIVE GateFrom(_, _)
\* The completeness loop over the stations: "pass" when it runs to its end,
\* "stop" when it meets an incomplete station without --force.
GateFrom(i, d) ==
  IF i > Len(stations) THEN "pass"
  ELSE IF day_count(i, d) # ExpectedCount /\ ~arg_force THEN "stop"
  ELSE GateFrom(i + 1, d)

\* day_arg: the days --reset-state and --stop accept when the clock reads now.
day_arg(now) == {d \in Days : ~(d < DAY_LIMIT \/ d > now)}

\* The last UTC day of the run.
last_day(stop, now) == IF stop # None THEN stop[1] ELSE now - 1

\* --reset-state: nargs="?", const=_DAY_LIMIT, default=None.  The option is
\* absent (day = None), comes with a day, or comes bare, without one.
reset_state_arg(bare, day) == IF bare THEN Some(DAY_LIMIT) ELSE day

\* The test as it would be with the resume day itself left out of the range.
nothing_to_do_Equal(last, first) == last <= first

\* "Nothing to do".
nothing_to_do(last, first) == last + 1 <= first

\* ------------------------------------------------------------ initial

NoFile == [exists |-> FALSE, text |-> <<>>]

\* A value of the data array: NaN (a NULL of the database) or num / den.
Absent == [nan |-> TRUE, num |-> 0, den |-> 1]

\* The float n.
Num(n) == [nan |-> FALSE, num |-> n, den |-> 1]

\* No row in hand.
NoRow == [field |-> "none", raw |-> Absent, us |-> Num(0)]

\* The table dataset: the physical type of every field.
dataset ==
  [barometer |-> "pressure", pressure |-> "pressure", altimeter |-> "pressure",
   inTemp |-> "temperature", outTemp |-> "temperature",
   inHumidity |-> "percent", outHumidity |-> "percent",
   windSpeed |-> "speed", windDir |-> "direction",
   windGust |-> "speed", windGustDir |-> "direction",
   rainRate |-> "rate", rain |-> "amount",
   dewpoint |-> "temperature", windchill |-> "temperature",
   heatindex |-> "temperature"]

\* The raw values tried for a field: NULL, a negative, zero and positive ones.
RawValues == {Absent, Num(0 - 40), Num(0), Num(32), Num(50)}

\* The values of the column usUnits: 0 (metric) and 1 (US).
UnitFlags == {Num(0), Num(1)}

\* Truth value of a float in an if statement: NaN and every nonzero number.
Truthy(v) == v.nan \/ v.num # 0

\* v * (n / d); NaN stays NaN.
Scale(v, n, d) == IF v.nan THEN v ELSE [nan |-> FALSE, num |-> v.num * n, den |-> v.den * d]

\* (v - 32.0) * 5.0 / 9.0; NaN stays NaN.
FtoC(v) ==
  IF v.nan THEN v ELSE [nan |-> FALSE, num |-> (v.num - 32 * v.den) * 5, den |-> v.den * 9]

\* The body of the conversion loop for one field of one row: what the data
\* array holds for the field afterwards.
convert(field, v, us) ==
  IF ~Truthy(us) THEN v
  ELSE IF ~Truthy(v) THEN v
  ELSE LET t == dataset[field]
       IN IF t = "pressure" THEN Scale(v, 33863886, 1000000)
          ELSE IF t = "temperature" THEN FtoC(v)
          ELSE IF t = "speed" THEN Scale(v, 1609344, 1000000)
          ELSE IF t = "amount" \/ t = "rate" THEN Scale(v, 254, 10)
          ELSE v

\* Two values of the data array are the same float.
SameValue(a, b) == a.nan = b.nan /\ (a.nan \/ a.num * b.den = b.num * a.den)

\* No process has run yet: no file, no local, no history.
Idle ==
  /\ today = DAY_LIMIT
  /\ state_file = NoFile
  /\ artifact = [d \in Days |-> "absent"]
  /\ lock = [d \in Days |-> FALSE]
  /\ pc = "idle"
  /\ arg_force = FALSE
  /\ arg_reset = None
  /\ arg_stop = None
  /\ first_day = 0
  /\ yesterday = 0
  /\ start = 0
  /\ count = 0
  /\ exported = <<>>
  /\ reset_req = None
  /\ status = 0
  /\ exit_status = 0
  /\ outcome = "none"
  /\ state_src = "none"
  /\ interrupted = {}
  /\ prev = None
  /\ rerun = FALSE
  /\ conf_archive = TRUE
  /\ prom_new = FALSE
  /\ prom_replaced = FALSE
  /\ prom_io = "none"
  /\ state_before = NoFile
  /\ visited = <<>>
  /\ had_artifact = FALSE

Init ==
  /\ Idle
  /\ archive \in [Days -> [Station -> Counts]]
  /\ \A d \in Days : d > today => \A s \in Station : archive[d][s] = 0
  /\ cv_in = NoRow
  /\ cv_out = Absent
  /\ cv_done = FALSE

\* ------------------------------------------------------------ entry()

Running == pc \notin {"idle", "done"}

\* The process ends with exit status code (exit(code), or 1 after an uncaught
\* exception); its locals and its command line are gone.
Exit(code, how) ==
  /\ pc' = "done"
  /\ exit_status' = code
  /\ outcome' = how
  /\ prev' = IF code = 0 /\ arg_reset = None THEN Some(<<arg_force, arg_stop>>) ELSE None
  /\ rerun' = FALSE
  /\ first_day' = 0
  /\ yesterday' = 0
  /\ start' = 0
  /\ count' = 0
  /\ exported' = <<>>
  /\ reset_req' = None
  /\ status' = 0
  /\ arg_force' = FALSE
  /\ arg_reset' = None
  /\ arg_stop' = None
  /\ conf_archive' = TRUE
  /\ state_before' = NoFile
  /\ visited' = <<>>
  /\ had_artifact' = FALSE

\* What the start can find wrong with the configuration: the file cannot be
\* read, "state_path" or "instrument" is missing, there is no station
\* section, a station has no "db_path" or its database cannot be read.
ConfFault == {"none", "unreadable", "no_state_path", "no_instrument",
              "no_stations", "no_db_path", "db_unreadable"}

\* A process starts: the command line is parsed, the configuration read, the
\* databases opened and the earliest record of every station fetched (a
\* station without any row makes fetchone()[0] raise); no fault is found in
\* the configuration.  has_archive tells whether the configuration holds the
\* key "archive", which is not looked for here.
StartWith(has_archive) ==
  /\ pc = "idle"
  /\ \E force \in BOOLEAN, bare \in BOOLEAN :
        \E reset \in {None} \cup {Some(d) : d \in day_arg(today)},
           stop \in {None} \cup {Some(d) : d \in day_arg(today)} :
          \* the reset branch never reads arg.stop: it is drawn for normal runs only
          /\ reset_state_arg(bare, reset) # None => stop = None
          /\ IF \E s \in Station : ~HasRows(s)
               THEN Exit(1, "no_rows")
               ELSE /\ pc' = IF reset_state_arg(bare, reset) # None THEN "reset" ELSE "load"
                    /\ arg_force' = force
                    /\ arg_reset' = reset_state_arg(bare, reset)
                    /\ reset_req' = IF bare THEN None ELSE reset
                    /\ arg_stop' = stop
                    /\ rerun' = (reset_state_arg(bare, reset) = None
                                   /\ prev = Some(<<force, stop>>))
                    /\ prev' = None
                    /\ exit_status' = 0
                    /\ outcome' = "running"
                    /\ conf_archive' = has_archive
                    /\ UNCHANGED <<locals, status, state_before, visited, had_artifact>>
  /\ UNCHANGED <<archive, today, files, state_src, interrupted, metrics, conv>>

\* A process starts with a configuration that names the archive directory.
Start == StartWith(TRUE)

\* A process starts with a configuration without the key "archive".
StartNoArchive == StartWith(FALSE)

\* A process starts and ends on one of the faults the start looks for:
\* exit(1), or the uncaught NameError of prom_and_exit(conf, 1) at line 194,
\* where conf is not bound.
StartFault ==
  /\ pc = "idle"
  /\ \E fault \in ConfFault \ {"none"} : Exit(1, "config")
  /\ UNCHANGED <<archive, today, files, state_src, interrupted, metrics, conv>>

\* Mutant: the state is rewritten whether or not a state is present.
Reset_Always ==
  /\ pc = "reset"
  /\ arg_reset' = Some(reset_target(arg_reset[1]))
  /\ pc' = "reset_open"
  /\ UNCHANGED <<exit_status, outcome, locals, status, arg_force,
                 arg_stop, reset_req, prev, rerun>>
  /\ UNCHANGED <<archive, today, files, state_src, interrupted>>
  /\ UNCHANGED <<metrics, conv, runhist>>

\* --reset-state: decide whether the state is rewritten.
Reset ==
  /\ pc = "reset"
  /\ IF arg_force \/ read_state(state_file) = None
       THEN /\ arg_reset' = Some(reset_target(arg_reset[1]))
            /\ pc' = "reset_open"
            /\ UNCHANGED <<exit_status, outcome, locals, status, arg_force,
                           arg_stop, reset_req, prev, rerun, runhist>>
       ELSE Exit(0, "state_present")
  /\ UNCHANGED <<archive, today, files, state_src, interrupted, metrics, conv>>

\* write_state(conf, arg.reset_state.shift(days=-1)): the file is opened.
ResetWriteOpen ==
  /\ pc = "reset_open"
  /\ state_file' = write_state_open
  /\ interrupted' = {}
  /\ pc' = "reset_flush"
  /\ UNCHANGED <<archive, today, artifact, lock, args, locals, status,
                 exit_status, outcome, state_src, prev, rerun>>
  /\ state_before' = state_file
  /\ UNCHANGED <<metrics, conv, conf_archive, visited, had_artifact>>

\* ... the text is written and the file closed; exit(0).
ResetWriteFlush ==
  /\ pc = "reset_flush"
  /\ state_file' = write_state_flush(arg_reset[1] - 1)
  /\ state_src' = "reset"
  /\ Exit(0, "reset_done")
  /\ UNCHANGED <<archive, today, artifact, lock, interrupted>>
  /\ UNCHANGED <<metrics, conv>>

\* The archive directory conf["archive"] can be missing only while it holds nothing.
ArchiveDirMayBeMissing ==
  \A d \in Days : artifact[d] = "absent" /\ ~lock[d]

\* Load the state, fix the last day, leave when there is nothing to do or the
\* archive directory is missing (conf["archive"] raises KeyError when the
\* configuration has no such key).
Load ==
  /\ pc = "load"
  /\ LET st == read_state(state_file)
         last == last_day(arg_stop, today)
     IN IF st = None
          THEN Exit(1, "bad_state")
        ELSE IF ~nothing_to_do(last, st[1]) /\ ~conf_archive
          THEN Exit(1, "no_archive_key")
          ELSE /\ first_day' = st[1]
               /\ yesterday' = last
               /\ UNCHANGED <<exit_status, args, start, count, exported, prev,
                              rerun, runhist>>
               /\ IF nothing_to_do(last, st[1])
                    THEN pc' = "prom" /\ status' = 0 /\ outcome' = "nothing_to_do"
                    ELSE \/ pc' = "gate" /\ UNCHANGED <<status, outcome>>
                         \/ /\ ArchiveDirMayBeMissing
                            /\ pc' = "prom" /\ status' = 1 /\ outcome' = "no_archive"
  /\ UNCHANGED <<archive, today, files, state_src, interrupted, metrics, conv>>

\* Count yesterday's records of every station.
Gate ==
  /\ pc = "gate"
  /\ IF GateFrom(1, yesterday) = "stop"
       THEN /\ pc' = "prom" /\ status' = 0 /\ outcome' = "incomplete"
            /\ UNCHANGED <<start, count>>
       ELSE /\ pc' = "loop" /\ start' = first_day /\ count' = 0
            /\ UNCHANGED <<status, outcome>>
  /\ UNCHANGED <<archive, today, files, args, first_day, yesterday, exported,
                 exit_status, history>>
  /\ UNCHANGED <<metrics, conv, runhist>>

\* Head of the day loop: the next day of span_range, its rows fetched.
LoopDay ==
  /\ pc = "loop"
  /\ IF start > yesterday
       THEN /\ pc' = "prom" /\ status' = 0 /\ outcome' = "finished"
            /\ UNCHANGED start
       ELSE IF ~have_data(start)
         THEN /\ start' = start + 1
              /\ UNCHANGED <<pc, status, outcome>>
         ELSE /\ pc' = "mklock"
              /\ UNCHANGED <<start, status, outcome>>
  /\ UNCHANGED <<archive, today, files, args, first_day, yesterday, count,
                 exported, exit_status, history>>
  /\ visited' = IF start > yesterday THEN visited ELSE Append(visited, start)
  /\ UNCHANGED <<metrics, conv, conf_archive, state_before, had_artifact>>

\* Mutant: the lock marker is never created.
CreateLock_Missing ==
  /\ pc = "mklock"
  /\ interrupted' = interrupted \ {start}
  /\ pc' = "open"
  /\ UNCHANGED <<archive, today, files, args, locals, status,
                 exit_status, outcome, state_src, prev, rerun>>
  /\ had_artifact' = (artifact[start] = "complete" /\ ~lock[start])
  /\ UNCHANGED <<metrics, conv, conf_archive, state_before, visited>>

\* open(lockpath, "w").close()
CreateLock ==
  /\ pc = "mklock"
  /\ lock' = [lock EXCEPT ![start] = TRUE]
  /\ interrupted' = interrupted \ {start}
  /\ pc' = "open"
  /\ UNCHANGED <<archive, today, state_file, artifact, args, locals, status,
                 exit_status, outcome, state_src, prev, rerun>>
  /\ had_artifact' = (artifact[start] = "complete" /\ ~lock[start])
  /\ UNCHANGED <<metrics, conv, conf_archive, state_before, visited>>

\* hf = h5py.File(filepath, "w")
OpenFile ==
  /\ pc = "open"
  /\ artifact' = [artifact EXCEPT ![start] = "partial"]
  /\ pc' = "write"
  /\ had_artifact' = FALSE
  /\ UNCHANGED <<archive, today, state_file, lock, args, locals, status,
                 exit_status, outcome, history>>
  /\ UNCHANGED <<metrics, conv, conf_archive, state_before, visited>>

\* The attributes, the index map and the station groups are written.
WriteFile ==
  /\ pc = "write"
  /\ pc' = "close"
  /\ UNCHANGED <<archive, today, files, args, locals, status, exit_status,
                 outcome, history>>
  /\ UNCHANGED <<metrics, conv, runhist>>

\* Mutant: the state is advanced without hf.close().
CloseFile_Skipped ==
  /\ pc = "close"
  /\ pc' = "unlink"
  /\ UNCHANGED <<archive, today, files, args, locals, status,
                 exit_status, outcome, history>>
  /\ UNCHANGED <<metrics, conv, runhist>>

\* Mutant: the state is advanced as soon as the file is closed, before the
\* lock marker is removed.
CloseFile_ThenState ==
  /\ pc = "close"
  /\ artifact' = [artifact EXCEPT ![start] = "complete"]
  /\ state_file' = write_state_flush(start)
  /\ state_src' = "export"
  /\ pc' = "unlink"
  /\ UNCHANGED <<archive, today, lock, args, locals, status,
                 exit_status, outcome, interrupted, prev, rerun>>
  /\ UNCHANGED <<metrics, conv, runhist>>

\* hf.close()
CloseFile ==
  /\ pc = "close"
  /\ artifact' = [artifact EXCEPT ![start] = "complete"]
  /\ pc' = "unlink"
  /\ UNCHANGED <<archive, today, state_file, lock, args, locals, status,
                 exit_status, outcome, history>>
  /\ UNCHANGED <<metrics, conv, runhist>>

\* count += 1; os.unlink(lockpath)
UnlinkLock ==
  /\ pc = "unlink"
  /\ count' = count + 1
  /\ lock' = [lock EXCEPT ![start] = FALSE]
  /\ pc' = "ws_open"
  /\ UNCHANGED <<archive, today, state_file, artifact, args, first_day,
                 yesterday, start, exported, status, exit_status, outcome, history>>
  /\ UNCHANGED <<metrics, conv, runhist>>

\* write_state(conf, start): the file is opened.
ExportWriteOpen ==
  /\ pc = "ws_open"
  /\ state_file' = write_state_open
  /\ pc' = "ws_flush"
  /\ UNCHANGED <<archive, today, artifact, lock, args, locals, status,
                 exit_status, outcome, history>>
  /\ state_before' = state_file
  /\ UNCHANGED <<metrics, conv, conf_archive, visited, had_artifact>>

\* ... the text is written and the file closed; the loop goes on.
ExportWriteFlush ==
  /\ pc = "ws_flush"
  /\ state_file' = write_state_flush(start)
  /\ state_src' = "export"
  /\ exported' = Append(exported, start)
  /\ start' = start + 1
  /\ pc' = "loop"
  /\ UNCHANGED <<archive, today, artifact, lock, args, first_day, yesterday,
                 count, status, exit_status, outcome, interrupted, prev, rerun>>
  /\ state_before' = NoFile
  /\ had_artifact' = FALSE
  /\ UNCHANGED <<metrics, conv, conf_archive, visited>>

\* What becomes of the metrics file when "netfc_path" is configured.
MetricsIO == {"ok", "write_fails", "open_fails"}

\* The status the process ends with: a failed open leaves no .new file, so
\* the unlink of the handler raises in its turn.
prom_status(netfc, io, st) == IF netfc /\ io = "open_fails" THEN 1 ELSE st

\* Whether path + ".new" exists afterwards: a successful open creates it and
\* the rename or the handler's unlink takes it away again; a failed open
\* leaves the directory as it was.
prom_new_after(netfc, io) == IF netfc /\ io # "open_fails" THEN FALSE ELSE prom_new

\* os.rename(path + ".new", path) in the else branch of the try statement.
prom_renamed(netfc, io) == netfc /\ io = "ok"

\* prom_and_exit(conf, status)
prom_and_exit ==
  /\ pc = "prom"
  /\ \E netfc \in BOOLEAN, io \in MetricsIO :
       /\ Exit(prom_status(netfc, io, status), outcome)
       /\ prom_new' = prom_new_after(netfc, io)
       /\ prom_replaced' = prom_renamed(netfc, io)
       /\ prom_io' = IF netfc THEN io ELSE "none"
  /\ UNCHANGED <<archive, today, files, state_src, interrupted, conv>>

\* The steps under the lock marker.
UnderLock == {"open", "write", "close", "unlink"}

\* Mutant: a handler removes the artifact and its lock marker after the error.
IOError_Cleanup ==
  /\ pc \in {"open", "write", "close"}
  /\ interrupted' = interrupted \cup {start}
  /\ artifact' = [artifact EXCEPT ![start] = "absent"]
  /\ lock' = [lock EXCEPT ![start] = FALSE]
  /\ Exit(1, "io_error")
  /\ UNCHANGED <<archive, today, state_file, state_src>>
  /\ UNCHANGED <<metrics, conv>>

\* An I/O error while the artifact is created, written or closed: the
\* exception is not caught and the process ends.  A failed h5py.File may or
\* may not have created or truncated the file.
IOError ==
  /\ pc \in {"open", "write", "close"}
  /\ interrupted' = interrupted \cup {start}
  /\ \E left \in {artifact[start]} \cup (IF pc = "open" THEN {"partial"} ELSE {}) :
       artifact' = [artifact EXCEPT ![start] = left]
  /\ Exit(1, "io_error")
  /\ UNCHANGED <<archive, today, state_file, lock, state_src>>
  /\ UNCHANGED <<metrics, conv>>

\* The process is killed between two steps.
Kill ==
  /\ Running
  /\ interrupted' = IF pc \in UnderLock THEN interrupted \cup {start} ELSE interrupted
  /\ Exit(137, "killed")
  /\ UNCHANGED <<archive, today, files, state_src>>
  /\ UNCHANGED <<metrics, conv>>

\* The caller has collected the exit status of the process that ended; the
\* next invocation can start.
Reap ==
  /\ pc = "done"
  /\ pc' = "idle"
  /\ exit_status' = 0
  /\ outcome' = "none"
  /\ prom_replaced' = FALSE
  /\ prom_io' = "none"
  /\ UNCHANGED <<archive, today, files, args, locals, status, history,
                 prom_new, runhist, conv>>

\* The UTC day changes.
Tick ==
  /\ pc = "idle"
  /\ today < MaxDay
  /\ today' = today + 1
  /\ prev' = None
  /\ UNCHANGED <<archive, files, pc, args, locals, status, exit_status, outcome,
                 state_src, interrupted, rerun>>
  /\ UNCHANGED <<metrics, conv, runhist>>

\* wview stores the records of the current day of one station.
ArchiveAppend ==
  /\ pc = "idle"
  /\ \E s \in Station :
       /\ archive[today][s] = 0
       /\ archive' = [archive EXCEPT ![today][s] = ExpectedCount]
  /\ prev' = None
  /\ UNCHANGED <<today, files, pc, args, locals, status, exit_status, outcome,
                 state_src, interrupted, rerun>>
  /\ UNCHANGED <<metrics, conv, runhist>>

Next ==
  \/ Start
  \/ Reset
  \/ ResetWriteOpen
  \/ ResetWriteFlush
  \/ Load
  \/ Gate
  \/ LoopDay
  \/ CreateLock
  \/ OpenFile
  \/ WriteFile
  \/ CloseFile
  \/ UnlinkLock
  \/ ExportWriteOpen
  \/ ExportWriteFlush
  \/ prom_and_exit
  \/ IOError
  \/ Kill
  \/ Reap
  \/ Tick
  \/ ArchiveAppend

Spec == Init /\ [][Next]_vars

\* Between two runs the state file is written by hand or by another tool: it
\* holds a well-formed day, which can be before _DAY_LIMIT or after today.
EditState ==
  /\ pc = "idle"
  /\ \E d \in 0..(MaxDay + 1) : state_file' = [exists |-> TRUE, text |-> Format(d)]
  /\ state_src' = "edit"
  /\ interrupted' = {}
  /\ prev' = None
  /\ UNCHANGED <<archive, today, artifact, lock, pc, args, locals, status,
                 exit_status, outcome, rerun, metrics, runhist, conv>>

\* The conversion loop passes over the field in hand.
ConvertField ==
  /\ ~cv_done
  /\ cv_in.field # "none"
  /\ cv_out' = convert(cv_in.field, cv_in.raw, cv_in.us)
  /\ cv_done' = TRUE
  /\ UNCHANGED <<archive, today, files, pc, args, locals, status, exit_status,
                 outcome, history, metrics, runhist, cv_in>>

\* One field of one fetched row, and a process that does nothing else.
InitUnits ==
  /\ cv_in \in [field : DOMAIN dataset, raw : RawValues, us : UnitFlags]
  /\ cv_out = cv_in.raw
  /\ cv_done = FALSE
  /\ archive = [d \in Days |-> [s \in Station |-> 0]]
  /\ Idle

NextUnits == ConvertField

\* The unit conversion alone, over every field, raw value and unit flag.
SpecUnits == InitUnits /\ [][NextUnits]_vars

NextEdit == Next \/ EditState

\* The program with a state file that is also written from outside.
SpecEdit == Init /\ [][NextEdit]_vars

NextConfig == Next \/ StartNoArchive \/ StartFault

\* The program run with faulty configurations as well.
SpecConfig == Init /\ [][NextConfig]_vars

TypeOK ==
  /\ today \in Days
  /\ pc \in {"idle", "done", "reset", "reset_open", "reset_flush", "load", "gate",
             "loop", "mklock", "open", "write", "close", "unlink", "ws_open",
             "ws_flush", "prom"}
  /\ \A d \in Days : artifact[d] \in {"absent", "partial", "complete"}
  /\ count \in 0..(MaxDay + 1)
  /\ start \in 0..(MaxDay + 1)

\* ------------------------------------------------------------ claims

\* The day the state file holds, None when it holds none.
resume == read_state(state_file)

\* C1: the resume state is advanced past day D only after D's artifact has
\* been written and closed: while write_state runs for D the artifact of D is
\* complete, and in every state, also after a kill at any step, a state that
\* an export has set to D+1 comes with the complete artifact of D.
C1_StateOnlyAfterArtifact ==
  /\ pc \in {"ws_open", "ws_flush"} => artifact[start] = "complete"
  /\ (state_src = "export" /\ resume # None) =>
       artifact[resume[1] - 1] = "complete"

\* A killed process has left the state advanced by the export of a day.
C1_Witness ==
  /\ pc = "done" /\ outcome = "killed"
  /\ state_src = "export" /\ resume # None
  /\ artifact[resume[1] - 1] = "complete"

\* C2: the lock marker exists whenever the artifact is opened, written or
\* closed, so that in every state, also after a kill at any step, an artifact
\* without its lock marker is complete.
C2_UnlockedIsComplete ==
  /\ pc \in {"open", "write", "close"} => lock[start]
  /\ \A d \in Days : (artifact[d] # "absent" /\ ~lock[d]) => artifact[d] = "complete"

\* A process was killed in the middle of an artifact, and another artifact
\* stands complete without a lock marker.
C2_Witness ==
  /\ pc = "done" /\ outcome = "killed"
  /\ \E d \in Days : artifact[d] = "partial" /\ lock[d]
  /\ \E d \in Days : artifact[d] = "complete" /\ ~lock[d]

\* C3: when creating, writing or closing the artifact of a day fails, the
\* lock marker of that day stays, the resume state is not advanced for that
\* day and an artifact that exists is not deleted.
C3_FailureKeepsLock ==
  [][(pc \in {"open", "write", "close"} /\ outcome' = "io_error") =>
       /\ lock'[start]
       /\ state_file' = state_file
       /\ read_state(state_file') # Some(start + 1)
       /\ (artifact[start] # "absent" => artifact'[start] # "absent")]_vars

\* A run has ended on an I/O error in the middle of an artifact.
C3_Witness ==
  /\ pc = "done" /\ outcome = "io_error"
  /\ \E d \in interrupted : lock[d] /\ artifact[d] = "partial"

\* C4: after a run was interrupted between creating and removing the lock
\* marker of day D (no reset since), the lock marker is still there and the
\* resume state is at or before D until a later run attempts the export of D
\* again: no run moves the state past D without that attempt.
C4_InterruptedDayIsRetried ==
  \A d \in interrupted :
    /\ lock[d]
    /\ resume # None => resume[1] <= d

\* A later normal run has come back to a day whose export was interrupted.
C4_Witness ==
  /\ pc = "mklock"
  /\ start \in interrupted
  /\ artifact[start] = "partial"

\* C5: when a normal run ends with exit status 0, the resume day is at or
\* after the resume day the run loaded, and is the day after the last day the
\* run exported (the loaded day itself when it exported none).
C5_MonotoneResume ==
  [][(pc = "prom" /\ pc' = "done" /\ exit_status' = 0) =>
       LET after == read_state(state_file')
       IN /\ after # None
          /\ after[1] >= first_day
          /\ after[1] = IF exported = <<>> THEN first_day
                        ELSE exported[Len(exported)] + 1]_vars

\* A normal run has exported two days and hands status 0 to prom_and_exit.
C5_Witness ==
  /\ pc = "prom" /\ status = 0 /\ outcome = "finished"
  /\ Len(exported) >= 2
  /\ resume = Some(exported[Len(exported)] + 1)

\* C6: when the day loop of a normal run has finished, every day of its range
\* without a row in any station has no artifact and no lock marker, and the
\* resume state is past that day.
C6_EmptyDayAdvances ==
  (pc = "prom" /\ outcome = "finished") =>
    \A d \in first_day..yesterday :
      ~have_data(d) =>
        /\ artifact[d] = "absent"
        /\ ~lock[d]
        /\ resume # None /\ resume[1] > d

\* Every station holds a full day of records for day d.
AllComplete(d) == \A s \in Station : day_count(s, d) = ExpectedCount

\* C7: the gate looks at the boundary day only.  With a full day in every
\* station, or with --force, the run goes on to the day loop; otherwise it
\* hands status 0 to prom_and_exit with no file touched, and then ends with
\* exit status 0, nothing exported and the resume state as it was loaded.
C7_CompletenessGate ==
  [][((pc = "gate" /\ pc' # "done") =>
        IF AllComplete(yesterday) \/ arg_force
          THEN pc' = "loop"
          ELSE (pc' = "prom" /\ status' = 0 /\ UNCHANGED files))
     /\
     ((pc = "prom" /\ outcome = "incomplete" /\ outcome' # "killed") =>
        (/\ pc' = "done" /\ exit_status' = 0
         /\ exported = <<>> /\ resume = Some(first_day)
         /\ UNCHANGED files))]_vars

\* C8: a normal run that repeats the previous normal run (same command line,
\* same day, same archive, same resume day) after that run ended with status 0
\* writes nothing: no artifact, no lock marker, no state, and counts no day.
C8_RerunWritesNothing ==
  [][rerun => (UNCHANGED files /\ count' = 0)]_vars

\* The repeated run finds nothing to do after the first run exported a day.
C8_Witness ==
  /\ rerun /\ pc = "prom" /\ outcome = "nothing_to_do"
  /\ state_src = "export"
  /\ artifact[first_day - 1] = "complete"

\* C9: a run with --reset-state changes the state file only when --force is
\* given or the file holds no state that read_state accepts; it never touches
\* an artifact or a lock marker, and when it ends by itself its exit status
\* is 0.
C9_ResetFrame ==
  [][arg_reset # None =>
       (/\ state_file' # state_file => (arg_force \/ read_state(state_file) = None)
        /\ UNCHANGED <<artifact, lock>>
        /\ (pc' = "done" /\ outcome' # "killed") => exit_status' = 0)]_vars

\* A reset without --force has found a state and left it alone.
C9_Witness ==
  /\ pc = "done" /\ outcome = "state_present" /\ exit_status = 0
  /\ resume # None

\* The earliest record day over all stations.
earliest == CHOOSE d \in Days :
              /\ \E s \in Station : start_day(s) = d
              /\ \A s \in Station : start_day(s) >= d

Max(a, b) == IF a >= b THEN a ELSE b

\* C10: when a reset has been applied, the state read back is the later of
\* the requested day and the earliest record day of all stations, and that
\* earliest day itself when --reset-state came without a day.
C10_ResetClamp ==
  [][(pc = "reset_flush" /\ outcome' = "reset_done") =>
       read_state(state_file') =
         Some(IF reset_req = None THEN earliest
              ELSE Max(reset_req[1], earliest))]_vars

\* C11: a normal run, with the default last day or with --stop, with or
\* without --force, never creates the artifact of the current UTC day or of a
\* later day: the day whose artifact it has opened is before today.
C11_NeverToday ==
  pc \in {"write", "close", "unlink", "ws_open", "ws_flush"} => start < today

C13_BadStateFails ==
  [][(pc = "load" /\ (~state_file.exists \/ Parse(state_file.text) = None)) =>
       (/\ pc' = "done" /\ exit_status' # 0
        /\ UNCHANGED files)]_vars

\* A normal run has ended on a state file that exists and does not parse.
C13_Witness ==
  /\ pc = "done" /\ outcome = "bad_state" /\ exit_status = 1
  /\ state_file.exists /\ Parse(state_file.text) = None

\* C14: a state that parses to a day before _DAY_LIMIT or after today is
\* invalid state: a normal run that loads it ends with a nonzero exit status
\* and no file touched, and a reset without --force goes on to rewrite it.
C14_OutOfRangeIsInvalid ==
  [][(resume # None /\ (resume[1] < DAY_LIMIT \/ resume[1] > today)) =>
       (/\ pc = "load" => (pc' = "done" /\ exit_status' # 0 /\ UNCHANGED files)
        /\ (pc = "reset" /\ ~arg_force /\ outcome' # "killed") =>
             pc' = "reset_open")]_vars

\* C15: with a configuration that cannot be read, that lacks "archive",
\* "instrument", "state_path" or a station's "db_path", or whose database
\* cannot be read, a process, normal run or reset, touches no state file,
\* artifact or lock marker and ends with a nonzero exit status.
C15_ConfigFaultFails ==
  [][((pc = "idle" /\ outcome' = "config") =>
        (exit_status' # 0 /\ UNCHANGED files))
     /\
     ((Running /\ ~conf_archive) =>
        (/\ UNCHANGED files
         /\ pc' = "done" => exit_status' # 0))]_vars

\* C16: when prom_and_exit has "netfc_path" and the open or a write of the
\* metrics file fails, the process ends with the status prom_and_exit was
\* given, no aristoteles.prom.new is left and aristoteles.prom is not replaced.
C16_MetricsFailureKeepsStatus ==
  [][(pc = "prom" /\ prom_io' \in {"write_fails", "open_fails"}) =>
       (/\ exit_status' = status
        /\ ~prom_new'
        /\ ~prom_replaced')]_vars

\* C17: when the process is killed inside write_state, before the open or
\* between the open and the write, and a day was stored before the call, the
\* state read afterwards is that day or the day the call was writing.
C17_WriteStateAtomic ==
  [][(pc \in {"ws_open", "ws_flush", "reset_open", "reset_flush"}
        /\ outcome' = "killed") =>
       LET before == IF pc \in {"ws_flush", "reset_flush"}
                       THEN state_before ELSE state_file
           new == IF pc \in {"ws_open", "ws_flush"} THEN start + 1 ELSE arg_reset[1]
       IN read_state(before) # None =>
            read_state(state_file') \in {read_state(before), Some(new)}]_vars

\* C18: after the conversion loop, a field of a row whose unit flag is not
\* imperial, or whose value is absent, holds its raw value; otherwise a
\* temperature v, zero and negative ones included, holds (v - 32) * 5 / 9 and
\* a percentage or a direction holds its raw value.
C18_UnitConversion ==
  cv_done =>
    LET t == dataset[cv_in.field]
        v == cv_in.raw
    IN IF ~Truthy(cv_in.us) \/ v.nan
         THEN SameValue(cv_out, v)
       ELSE IF t = "temperature"
         THEN SameValue(cv_out, [nan |-> FALSE, num |-> (v.num - 32) * 5, den |-> 9])
       ELSE (t \in {"percent", "direction"}) => SameValue(cv_out, v)

\* The pcs of the day loop.
InLoop == {"loop", "mklock", "open", "write", "close", "unlink", "ws_open", "ws_flush"}

\* C19: the day loop takes every day from the resume day to the last day,
\* once each and in ascending order; the state is written after each exported
\* day, as the day after it; and when the process is killed inside the loop
\* the state read afterwards is the day after the last day whose export this
\* run has completed (the loaded day when it has completed none).
C19_DayByDay ==
  [][((pc = "prom" /\ outcome = "finished") =>
        visited = [i \in 1..(yesterday + 1 - first_day) |-> first_day + i - 1])
     /\
     ((pc = "ws_flush" /\ pc' = "loop") =>
        (/\ read_state(state_file') = Some(start + 1)
         /\ exported' = Append(exported, start)))
     /\
     ((pc \in InLoop /\ outcome' = "killed") =>
        read_state(state_file') =
          Some(IF exported = <<>> THEN first_day
               ELSE exported[Len(exported)] + 1))]_vars

\* C20: an artifact that stands complete without a lock marker is never
\* truncated or rewritten: no step changes it while it is unlocked, and no
\* run that has put a lock marker next to it opens it for writing.
C20_CompleteIsImmutable ==
  [][(\A d \in Days :
        (artifact[d] = "complete" /\ ~lock[d]) => artifact'[d] = "complete")
     /\
     ((pc = "open" /\ had_artifact) => artifact'[start] = "complete")]_vars

====
